---- MODULE Spec2Model ----
(***************************************************************************)
(* Depth-first traversal of the rich-text DOM                              *)
(* (crates/wysiwyg/src/dom/iter.rs): the stack-based forward iterator      *)
(* DomIterator, the address-based double-ended iterator DomNodeIterator,   *)
(* and the single-step lookups Dom::prev_handle / Dom::next_handle.        *)
(*                                                                         *)
(* A node is identified by its DomHandle: the path of child indices from   *)
(* the document root (<<>> is the root).  A Dom is a function from the     *)
(* handles of its nodes to their kinds.                                    *)
(***************************************************************************)
EXTENDS Integers, Sequences, FiniteSets, TLC

\* ------------------------------------------------------------------------
\* Bounds of the model
\* ------------------------------------------------------------------------
MaxNodes == 4          \* nodes in a document
MaxDepth == 3          \* longest handle (root has depth 0)
MaxWidth == 3          \* children of one container
MaxPulls == 3          \* pulls of a run that mixes front and back pulls
MaxNones == 2          \* pulls answered with None that a run records

\* Option::None for Option<&DomNode>, and the outcome of a panic
NoNode == <<-1>>
PANIC == <<-2>>

\* ------------------------------------------------------------------------
\* DomHandle arithmetic and Dom lookups (collaborators of iter.rs)
\* ------------------------------------------------------------------------
has_parent(handle) == Len(handle) > 0

parent_handle(handle) == SubSeq(handle, 1, Len(handle) - 1)

index_in_parent(handle) == handle[Len(handle)]

child_handle(handle, i) == Append(handle, i)

\* number of handles of S directly below p
ChildCount(S, p) ==
    Cardinality({q \in S : has_parent(q) /\ parent_handle(q) = p})

\* c.children().len()
children_len(d, handle) == ChildCount(DOMAIN d, handle)

\* c.children().get(i)
children_get(d, handle, i) ==
    IF i >= 0 /\ i < children_len(d, handle)
    THEN child_handle(handle, i) ELSE NoNode

\* c.children().first()
children_first(d, handle) == children_get(d, handle, 0)

\* c.children().last()
children_last(d, handle) ==
    children_get(d, handle, children_len(d, handle) - 1)

IsContainer(d, handle) == d[handle] = "Container"

\* ------------------------------------------------------------------------
\* The documents: every tree within the bounds.  The root is a Container,
\* every node with children is a Container, a childless node is a Text, a
\* LineBreak, a Zwsp or an empty Container.
\* ------------------------------------------------------------------------
Kinds == {"Container", "Text", "LineBreak", "Zwsp"}

RECURSIVE ShapesOfSize(_)
ShapesOfSize(n) ==
    IF n = 1 THEN {{<<>>}}
    ELSE UNION {
           { S \cup {child_handle(p, ChildCount(S, p))} :
               p \in {q \in S : /\ Len(q) < MaxDepth
                                /\ ChildCount(S, q) < MaxWidth} } :
           S \in ShapesOfSize(n - 1) }

Shapes == UNION {ShapesOfSize(n) : n \in 1..MaxNodes}

Doms ==
    UNION { { d \in [S -> Kinds] :
                /\ d[<<>>] = "Container"
                /\ \A h \in S : ChildCount(S, h) > 0 => d[h] = "Container" } :
            S \in Shapes }

\* ------------------------------------------------------------------------
\* State
\* ------------------------------------------------------------------------
VARIABLES
    dom,        \* the document: handle -> kind of the node at that handle
    mode,       \* "idle", "DomIterator", "DomNodeIterator" or "lookup"
    anchor,     \* the node the iterator was constructed over
    started,    \* DomIterator.started / DomNodeIterator.started
    ancestors,  \* DomIterator.ancestors: frames [node, child_index]
    current,    \* DomNodeIterator.current (NoNode for None)
    visited,    \* DomNodeIterator.visited
    trace,      \* what each pull returned, in order (NoNode for None)
    dirs,       \* the end each pull was made at: "F" (next) or "B" (next_back)
    panicked,   \* a pull aborted on a contract violation
    result      \* what a single-step lookup returned: [op, handle, value]

vars == <<dom, mode, anchor, started, ancestors, current, visited,
          trace, dirs, panicked, result>>

NoResult == [op |-> "none", handle |-> NoNode, value |-> NoNode]

\* ------------------------------------------------------------------------
\* DomNodeIterator (struct, over, next_sibling_or_parent,
\* prev_sibling_or_parent, next, next_back)
\* ------------------------------------------------------------------------
\* DomNodeIterator::over with the iterator born started: the first pull
\* moves off the anchor instead of emitting it.
DomNodeIterator_over_started(dom_node) ==
    [started |-> TRUE, current |-> dom_node, visited |-> {},
     panicked |-> FALSE]

\* DomNodeIterator::over that marks the anchor visited at construction
DomNodeIterator_over_visited(dom_node) ==
    [started |-> FALSE, current |-> dom_node, visited |-> {dom_node},
     panicked |-> FALSE]

\* An iterator value: the fields of the struct, plus whether it panicked.
DomNodeIterator_over(dom_node) ==
    [started |-> FALSE, current |-> dom_node, visited |-> {},
     panicked |-> FALSE]

\* lookup_node(&handle.parent_handle()) followed by the let-else on Container:
\* the parent's handle, or PANIC where the code aborts.  The parent of the
\* root address is not defined and an address outside the tree does not
\* resolve: both are contract violations, which are fatal.
ParentContainer(d, handle) ==
    IF ~has_parent(handle) THEN PANIC
    ELSE IF parent_handle(handle) \notin DOMAIN d THEN PANIC
    ELSE IF ~IsContainer(d, parent_handle(handle)) THEN PANIC
    ELSE parent_handle(handle)

RECURSIVE next_sibling_or_parent(_, _)
next_sibling_or_parent(d, handle) ==
    LET parent == ParentContainer(d, handle) IN
    IF parent = PANIC THEN PANIC
    ELSE LET idx == index_in_parent(handle) + 1 IN
         IF idx < children_len(d, parent) THEN children_get(d, parent, idx)
         ELSE IF has_parent(parent) THEN next_sibling_or_parent(d, parent)
         ELSE NoNode

\* prev_sibling_or_parent without the visited checks: a first child always
\* hands back its parent.
prev_sibling_or_parent_revisits(d, vis, handle) ==
    LET parent == ParentContainer(d, handle) IN
    IF parent = PANIC THEN [node |-> PANIC, visited |-> vis]
    ELSE LET idx == index_in_parent(handle) IN
         IF idx > 0
         THEN [node |-> children_get(d, parent, idx - 1), visited |-> vis]
         ELSE [node |-> parent, visited |-> vis \cup {parent}]

\* Returns the node and the visited set, which the function updates.
RECURSIVE prev_sibling_or_parent(_, _, _)
prev_sibling_or_parent(d, vis, handle) ==
    LET parent == ParentContainer(d, handle) IN
    IF parent = PANIC THEN [node |-> PANIC, visited |-> vis]
    ELSE LET idx == index_in_parent(handle) IN
         IF idx > 0
         THEN [node |-> children_get(d, parent, idx - 1), visited |-> vis]
         ELSE IF has_parent(parent)
         THEN IF parent \notin vis
              THEN [node |-> parent, visited |-> vis \cup {parent}]
              ELSE prev_sibling_or_parent(d, vis, parent)
         ELSE IF parent \notin vis
         THEN [node |-> parent, visited |-> vis \cup {parent}]
         ELSE [node |-> NoNode, visited |-> vis]

\* A step that answers None at the end of the document but keeps the
\* position it was at
Stepped_keeps_position(it, node, vis) ==
    IF node = PANIC
    THEN [it |-> [it EXCEPT !.panicked = TRUE], item |-> PANIC]
    ELSE IF node = NoNode
    THEN [it |-> [it EXCEPT !.visited = vis \cup {it.current}],
          item |-> NoNode]
    ELSE [it |-> [it EXCEPT !.current = node,
                            !.visited = vis \cup {it.current}],
          item |-> node]

\* A step that forgets to insert the handle of the node it started from
Stepped_without_insert(it, node, vis) ==
    IF node = PANIC
    THEN [it |-> [it EXCEPT !.panicked = TRUE], item |-> PANIC]
    ELSE [it |-> [it EXCEPT !.current = node, !.visited = vis],
          item |-> node]

\* The iterator after a step that set self.current to `node` and left the
\* visited set as `vis`: insert the handle of the node the pull started
\* from, return self.current.  A panic leaves no iterator to pull from.
Stepped(it, node, vis) ==
    IF node = PANIC
    THEN [it |-> [it EXCEPT !.panicked = TRUE], item |-> PANIC]
    ELSE [it |-> [it EXCEPT !.current = node,
                            !.visited = vis \cup {it.current}],
          item |-> node]

\* <DomNodeIterator as Iterator>::next
DomNodeIterator_next(d, it) ==
    IF it.current = NoNode THEN [it |-> it, item |-> NoNode]
    ELSE IF ~it.started
    THEN [it |-> [it EXCEPT !.started = TRUE,
                            !.visited = it.visited \cup {it.current}],
          item |-> it.current]
    ELSE LET cur_handle == it.current IN
         IF IsContainer(d, cur_handle)
         THEN IF child_handle(cur_handle, 0) \notin it.visited
              THEN Stepped(it, children_first(d, cur_handle), it.visited)
              ELSE Stepped(it, next_sibling_or_parent(d, cur_handle),
                           it.visited)
         ELSE IF has_parent(cur_handle)
         THEN Stepped(it, next_sibling_or_parent(d, cur_handle), it.visited)
         ELSE Stepped(it, it.current, it.visited)

\* A next_back that never goes deeper
DescendsBackNever(d, it) == FALSE

\* The descent test of next_back without "the current container has not
\* been visited".
DescendsBackIgnoringSelf(d, it) ==
    /\ children_len(d, it.current) # 0
    /\ children_last(d, it.current) \notin it.visited

\* next_back goes deeper: the current container has not been visited, is
\* not empty and its last child has not been visited
DescendsBack(d, it) ==
    /\ it.current \notin it.visited
    /\ children_len(d, it.current) # 0
    /\ children_last(d, it.current) \notin it.visited

\* <DomNodeIterator as DoubleEndedIterator>::next_back
DomNodeIterator_next_back(d, it) ==
    IF it.current = NoNode THEN [it |-> it, item |-> NoNode]
    ELSE IF ~it.started
    THEN [it |-> [it EXCEPT !.started = TRUE,
                            !.visited = it.visited \cup {it.current}],
          item |-> it.current]
    ELSE LET cur_handle == it.current IN
         IF IsContainer(d, cur_handle)
         THEN IF DescendsBack(d, it)
              THEN Stepped(it, children_last(d, cur_handle), it.visited)
              ELSE IF has_parent(cur_handle)
              THEN LET p == prev_sibling_or_parent(d, it.visited, cur_handle)
                   IN Stepped(it, p.node, p.visited)
              ELSE Stepped(it, NoNode, it.visited)
         ELSE IF has_parent(cur_handle)
         THEN LET p == prev_sibling_or_parent(d, it.visited, cur_handle)
              IN Stepped(it, p.node, p.visited)
         ELSE Stepped(it, it.current, it.visited)

\* ------------------------------------------------------------------------
\* DomIterator (struct, over, next)
\* ------------------------------------------------------------------------
\* DomIterator::over that also opens a frame for the parent of the start
\* node, positioned after it: the walk goes on into the following siblings.
DomIterator_over_with_parent(dom_node) ==
    [started |-> FALSE,
     ancestors |->
        IF has_parent(dom_node)
        THEN <<[node |-> parent_handle(dom_node),
                child_index |-> index_in_parent(dom_node) + 1],
               [node |-> dom_node, child_index |-> 0]>>
        ELSE <<[node |-> dom_node, child_index |-> 0]>>]

DomIterator_over(dom_node) ==
    [started |-> FALSE,
     ancestors |-> <<[node |-> dom_node, child_index |-> 0]>>]

Pop(s) == SubSeq(s, 1, Len(s) - 1)

\* push_child that opens a frame for every child, whatever its kind
push_child_always(d, frames, myself) ==
    Append(frames, [node |-> myself, child_index |-> 0])

\* the frames after emitting the child `myself`: a Container child gets a
\* frame of its own
push_child(d, frames, myself) ==
    IF IsContainer(d, myself)
    THEN Append(frames, [node |-> myself, child_index |-> 0])
    ELSE frames

\* <DomIterator as Iterator>::next
RECURSIVE DomIterator_next(_, _)
DomIterator_next(d, it) ==
    IF ~it.started
    THEN [it |-> [it EXCEPT !.started = TRUE],
          item |-> it.ancestors[1].node]
    ELSE IF Len(it.ancestors) = 0 THEN [it |-> it, item |-> NoNode]
    ELSE LET n == Len(it.ancestors)
             parent == it.ancestors[n] IN
         IF ~IsContainer(d, parent.node) THEN [it |-> it, item |-> NoNode]
         ELSE IF parent.child_index < children_len(d, parent.node)
         THEN LET myself == children_get(d, parent.node, parent.child_index)
                  bumped == [it.ancestors EXCEPT
                               ![n].child_index = parent.child_index + 1]
              IN [it |-> [it EXCEPT !.ancestors =
                                      push_child(d, bumped, myself)],
                  item |-> myself]
         ELSE DomIterator_next(d, [it EXCEPT !.ancestors = Pop(it.ancestors)])

\* ------------------------------------------------------------------------
\* Filtering views: self.iter().filter_map(DomNode::as_text) and
\* self.iter().filter_map(DomNode::as_container)
\* ------------------------------------------------------------------------
\* DomNode::as_text / DomNode::as_container answer Some for that kind only
as_kind(d, kind, node) == d[node] = kind

\* A view that ends at the first node of another kind instead of skipping it
filter_map_next_until_other(d, it, kind) ==
    LET r == DomIterator_next(d, it) IN
    IF r.item = NoNode \/ as_kind(d, kind, r.item) THEN r
    ELSE [it |-> r.it, item |-> NoNode]

\* next() of the filtered view: pull the DomIterator until it yields a node
\* of the kind, or None
RECURSIVE filter_map_next(_, _, _)
filter_map_next(d, it, kind) ==
    LET r == DomIterator_next(d, it) IN
    IF r.item = NoNode \/ as_kind(d, kind, r.item) THEN r
    ELSE filter_map_next(d, r.it, kind)

\* ------------------------------------------------------------------------
\* The state machine: a document, then one iterator or one lookup on it
\* ------------------------------------------------------------------------
Init ==
    /\ dom \in Doms
    /\ mode = "idle"
    /\ anchor = NoNode
    /\ started = FALSE
    /\ ancestors = <<>>
    /\ current = NoNode
    /\ visited = {}
    /\ trace = <<>>
    /\ dirs = <<>>
    /\ panicked = FALSE
    /\ result = NoResult

Nones == Len(SelectSeq(trace, LAMBDA x : x = NoNode))

\* A caller may pull at end `end`: a run pulled from one end only goes on
\* until it is exhausted, a run that mixes the ends is cut at MaxPulls pulls.
MayPull(end) ==
    /\ ~panicked
    /\ Nones < MaxNones
    /\ \/ \A i \in 1..Len(dirs) : dirs[i] = end
       \/ Len(dirs) < MaxPulls

SetDomIterator(node) ==
    LET it == DomIterator_over(node) IN
    /\ mode' = "DomIterator"
    /\ anchor' = node
    /\ started' = it.started
    /\ ancestors' = it.ancestors
    /\ UNCHANGED <<dom, current, visited, trace, dirs, panicked, result>>

\* Dom::iter
Iter ==
    /\ mode = "idle"
    /\ SetDomIterator(<<>>)

\* DomNode::iter_subtree
IterSubtree(node) ==
    /\ mode = "idle"
    /\ SetDomIterator(node)

\* Dom::iter_from / Dom::iter_from_handle
IterFromHandle(handle) ==
    LET it == DomNodeIterator_over(handle) IN
    /\ mode = "idle"
    /\ mode' = "DomNodeIterator"
    /\ anchor' = handle
    /\ started' = it.started
    /\ current' = it.current
    /\ visited' = it.visited
    /\ panicked' = it.panicked
    /\ UNCHANGED <<dom, ancestors, trace, dirs, result>>

Self == [started |-> started, current |-> current, visited |-> visited,
         panicked |-> panicked]

Pulled(r, end) ==
    /\ started' = r.it.started
    /\ current' = r.it.current
    /\ visited' = r.it.visited
    /\ panicked' = r.it.panicked
    /\ trace' = IF r.item = PANIC THEN trace ELSE Append(trace, r.item)
    /\ dirs' = Append(dirs, end)
    /\ UNCHANGED <<dom, mode, anchor, ancestors, result>>

\* iter.next() on a DomNodeIterator
Next_ ==
    /\ mode = "DomNodeIterator"
    /\ MayPull("F")
    /\ Pulled(DomNodeIterator_next(dom, Self), "F")

\* iter.next_back() on a DomNodeIterator
NextBack ==
    /\ mode = "DomNodeIterator"
    /\ MayPull("B")
    /\ Pulled(DomNodeIterator_next_back(dom, Self), "B")

\* iter.next() on a DomIterator
DomIteratorNext ==
    LET r == DomIterator_next(dom, [started |-> started,
                                    ancestors |-> ancestors]) IN
    /\ mode = "DomIterator"
    /\ MayPull("F")
    /\ started' = r.it.started
    /\ ancestors' = r.it.ancestors
    /\ trace' = Append(trace, r.item)
    /\ dirs' = Append(dirs, "F")
    /\ UNCHANGED <<dom, mode, anchor, current, visited, panicked, result>>

SetFilteredIterator(view) ==
    LET it == DomIterator_over(<<>>) IN
    /\ mode = "idle"
    /\ mode' = view
    /\ anchor' = <<>>
    /\ started' = it.started
    /\ ancestors' = it.ancestors
    /\ UNCHANGED <<dom, current, visited, trace, dirs, panicked, result>>

\* Dom::iter_text
IterText == SetFilteredIterator("iter_text")

\* Dom::iter_containers
IterContainers == SetFilteredIterator("iter_containers")

\* the kind a view keeps
ViewKind(view) == IF view = "iter_text" THEN "Text" ELSE "Container"

\* next() on the view returned by Dom::iter_text / Dom::iter_containers
FilteredNext ==
    LET r == filter_map_next(dom, [started |-> started,
                                   ancestors |-> ancestors],
                             ViewKind(mode)) IN
    /\ mode \in {"iter_text", "iter_containers"}
    /\ MayPull("F")
    /\ started' = r.it.started
    /\ ancestors' = r.it.ancestors
    /\ trace' = Append(trace, r.item)
    /\ dirs' = Append(dirs, "F")
    /\ UNCHANGED <<dom, mode, anchor, current, visited, panicked, result>>

\* Dom::prev_node / Dom::prev_handle
prev_handle(d, handle) ==
    LET iter == DomNodeIterator_over(handle)
        first == DomNodeIterator_next_back(d, iter)
    IN IF first.item = PANIC THEN PANIC
       ELSE DomNodeIterator_next_back(d, first.it).item

\* Dom::next_node / Dom::next_handle
next_handle(d, handle) ==
    LET iter == DomNodeIterator_over(handle)
        first == DomNodeIterator_next(d, iter)
    IN IF first.item = PANIC THEN PANIC
       ELSE DomNodeIterator_next(d, first.it).item

Lookup(op, handle, value) ==
    /\ mode = "idle"
    /\ mode' = "lookup"
    /\ result' = [op |-> op, handle |-> handle, value |-> value]
    /\ panicked' = (value = PANIC)
    /\ UNCHANGED <<dom, anchor, started, ancestors, current, visited,
                   trace, dirs>>

PrevHandle(handle) == Lookup("prev_handle", handle, prev_handle(dom, handle))

NextHandle(handle) == Lookup("next_handle", handle, next_handle(dom, handle))

Next ==
    \/ Iter
    \/ \E node \in DOMAIN dom : IterSubtree(node)
    \/ \E handle \in DOMAIN dom : IterFromHandle(handle)
    \/ Next_
    \/ NextBack
    \/ DomIteratorNext
    \/ IterText
    \/ IterContainers
    \/ FilteredNext
    \/ \E handle \in DOMAIN dom : PrevHandle(handle)
    \/ \E handle \in DOMAIN dom : NextHandle(handle)

Spec == Init /\ [][Next]_vars

\* ------------------------------------------------------------------------
\* Vocabulary of the properties
\* ------------------------------------------------------------------------
Nodes == DOMAIN dom

Root == <<>>

\* the nodes a run has emitted, in order
Items == SelectSeq(trace, LAMBDA x : x # NoNode)

OnlyFront == \A i \in 1..Len(dirs) : dirs[i] = "F"

OnlyBack == \A i \in 1..Len(dirs) : dirs[i] = "B"

\* the last pull found the iterator exhausted
Exhausted == Nones > 0

\* once a pull has returned None, every later pull has
ExhaustionAbsorbs ==
    \A i, j \in 1..Len(trace) : (i < j /\ trace[i] = NoNode) => trace[j] = NoNode

IsPrefix(s, t) == Len(s) <= Len(t) /\ s = SubSeq(t, 1, Len(s))

Reverse(s) == [i \in 1..Len(s) |-> s[Len(s) + 1 - i]]

NoDuplicates(s) == \A i, j \in 1..Len(s) : i # j => s[i] # s[j]

Occurs(s, x) == \E i \in 1..Len(s) : s[i] = x

\* position of the first x in s
IndexOf(s, x) == CHOOSE i \in 1..Len(s) : s[i] = x /\ \A j \in 1..(i - 1) : s[j] # x

\* the part of s from its first x onward
From(s, x) == SubSeq(s, IndexOf(s, x), Len(s))

\* a is h or an ancestor of h
IsAncestorOrSelf(a, h) == Len(a) <= Len(h) /\ a = SubSeq(h, 1, Len(a))

IsProperAncestor(a, h) == a # h /\ IsAncestorOrSelf(a, h)

\* depth-first document order by its definition: a node, then the
\* subtrees of its children from left to right
RECURSIVE Preorder(_, _), PreorderOfChildren(_, _, _)
Preorder(d, h) == <<h>> \o PreorderOfChildren(d, h, 0)
PreorderOfChildren(d, h, i) ==
    IF i >= children_len(d, h) THEN <<>>
    ELSE Preorder(d, child_handle(h, i)) \o PreorderOfChildren(d, h, i + 1)

DocOrder == Preorder(dom, Root)

LastNode == DocOrder[Len(DocOrder)]

\* the sequences the iterators yield when drained from one end
RECURSIVE DrainDomIterator(_, _)
DrainDomIterator(d, it) ==
    LET r == DomIterator_next(d, it) IN
    IF r.item = NoNode THEN <<>> ELSE <<r.item>> \o DrainDomIterator(d, r.it)

RECURSIVE DrainBack(_, _)
DrainBack(d, it) ==
    LET r == DomNodeIterator_next_back(d, it) IN
    IF r.item \in {NoNode, PANIC} THEN <<>>
    ELSE <<r.item>> \o DrainBack(d, r.it)

\* what Dom::iter() yields for the document
IterAll == DrainDomIterator(dom, DomIterator_over(Root))

\* what a DomNodeIterator anchored at the last node yields from the back
FullBackWalk == DrainBack(dom, DomNodeIterator_over(LastNode))

\* ------------------------------------------------------------------------
\* C1: the whole-document forward iterator Dom::iter() emits every node of
\* the document exactly once in preorder (a container before all of its
\* descendants, children left to right, empty containers included) and
\* answers None to every pull after the last node.
\* ------------------------------------------------------------------------
IterIsPreorder ==
    (mode = "DomIterator" /\ anchor = Root) =>
        /\ IsPrefix(Items, DocOrder)
        /\ Exhausted => Items = DocOrder
        /\ ExhaustionAbsorbs

HasEmptyInnerContainer ==
    \E h \in Nodes : h # Root /\ IsContainer(dom, h) /\ children_len(dom, h) = 0

IterIsPreorderWitness ==
    /\ mode = "DomIterator" /\ anchor = Root
    /\ Nones >= 2
    /\ Len(Items) >= 4
    /\ HasEmptyInnerContainer
    /\ \E h \in Nodes : Len(h) >= 2

\* ------------------------------------------------------------------------
\* C2: under any interleaving of front and back pulls on one
\* DomNodeIterator no address is emitted twice.
\* ------------------------------------------------------------------------
NoAddressEmittedTwice ==
    mode = "DomNodeIterator" => NoDuplicates(Items)

\* ------------------------------------------------------------------------
\* C3: a DomNodeIterator anchored at the last node of the document and
\* pulled only from the back.
\* ------------------------------------------------------------------------
BackFromLastDone ==
    /\ mode = "DomNodeIterator"
    /\ OnlyBack
    /\ Exhausted
    /\ anchor = LastNode

\* C3 as stated: the output is the reverse of what Dom::iter() yields.
BackFromLastIsReversedIter ==
    BackFromLastDone => Items = Reverse(IterAll)

\* x is emitted before y
EmittedBefore(x, y) == IndexOf(Items, x) < IndexOf(Items, y)

\* C3 as amended: the walk emits every node of the document exactly once and
\* ends at the root, in reverse document order except that a container which
\* is not an ancestor of the anchor is emitted before its descendants; so
\* the output is the reverse of Dom::iter() exactly when no container off
\* the anchor's ancestor path has children.
BackFromLastCoversDocument ==
    BackFromLastDone =>
        /\ {Items[i] : i \in 1..Len(Items)} = Nodes
        /\ NoDuplicates(Items)
        /\ Items[Len(Items)] = Root
        /\ LET all == IterAll IN
           \A u, v \in Nodes :
             u # v =>
               (EmittedBefore(u, v) <=>
                  IF IsProperAncestor(u, v) THEN ~IsAncestorOrSelf(u, anchor)
                  ELSE IF IsProperAncestor(v, u) THEN IsAncestorOrSelf(v, anchor)
                  ELSE IndexOf(all, u) > IndexOf(all, v))
        /\ (Items = Reverse(IterAll)) <=>
             (\A h \in Nodes :
                children_len(dom, h) > 0 => IsAncestorOrSelf(h, anchor))

BackFromLastCoversDocumentWitness ==
    /\ BackFromLastDone
    /\ \E h \in Nodes : children_len(dom, h) > 0 /\ ~IsAncestorOrSelf(h, anchor)
    /\ Items # Reverse(IterAll)
    /\ Len(Items) >= 4

\* ------------------------------------------------------------------------
\* C4: Dom::iter_from(A) pulled only from the front yields the suffix,
\* starting at A, of the sequence Dom::iter() yields (containers may be
\* empty); anchored at the root the two sequences are identical.
\* ------------------------------------------------------------------------
FrontFromAnchorIsSuffixOfIter ==
    (mode = "DomNodeIterator" /\ OnlyFront /\ Exhausted) =>
        Items = From(IterAll, anchor)

\* ------------------------------------------------------------------------
\* C5: Dom::iter_from(A) pulled only from the back, against the walk from
\* the last node of the document pulled only from the back.
\* ------------------------------------------------------------------------
BackFromAnchorDone ==
    /\ mode = "DomNodeIterator"
    /\ OnlyBack
    /\ Exhausted

\* C5 as stated: the output is the part of the full walk from A onward.
BackFromAnchorIsPartOfFullBackWalk ==
    BackFromAnchorDone => Items = From(FullBackWalk, anchor)

\* C5 as amended: the output is the part of the full bottom-to-top walk
\* from A onward exactly when A is the last node of the document, one of
\* its ancestors, or a childless child of one of its ancestors.
BackFromAnchorIsPartOfFullBackWalkOnLastPath ==
    BackFromAnchorDone =>
        ((Items = From(FullBackWalk, anchor)) <=>
            \/ IsAncestorOrSelf(anchor, LastNode)
            \/ /\ children_len(dom, anchor) = 0
               /\ IsProperAncestor(parent_handle(anchor), LastNode))

BackFromAnchorIsPartOfFullBackWalkOnLastPathWitness ==
    /\ BackFromAnchorDone
    /\ anchor # LastNode
    /\ anchor # Root
    /\ IsProperAncestor(anchor, LastNode)
    /\ index_in_parent(anchor) > 0
    /\ Items = From(FullBackWalk, anchor)
    /\ Len(Items) >= 3

\* ------------------------------------------------------------------------
\* C6: Dom::prev_handle(h) / Dom::prev_node(h) return the node emitted just
\* before h by Dom::iter(), and none exactly when h is the document root.
\* ------------------------------------------------------------------------
PrevHandleIsDocOrderPredecessor ==
    (mode = "lookup" /\ result.op = "prev_handle") =>
        result.value =
            IF result.handle = Root THEN NoNode
            ELSE IterAll[IndexOf(IterAll, result.handle) - 1]

\* ------------------------------------------------------------------------
\* C7: Dom::next_handle(h) / Dom::next_node(h) return the node that follows
\* h in depth-first document order (containers may be empty), and none
\* exactly when h is the last node of the document.
\* ------------------------------------------------------------------------
NextHandleIsDocOrderSuccessor ==
    (mode = "lookup" /\ result.op = "next_handle") =>
        result.value =
            IF result.handle = LastNode THEN NoNode
            ELSE DocOrder[IndexOf(DocOrder, result.handle) + 1]

\* ------------------------------------------------------------------------
\* C8: DomNode::iter_subtree on a non-root node N emits N followed by N's
\* descendants in preorder, never a node outside N's subtree, and answers
\* None after N's last descendant (N alone when N is not a container).
\* ------------------------------------------------------------------------
SubtreeIterStaysInSubtree ==
    (mode = "DomIterator" /\ anchor # Root) =>
        /\ \A i \in 1..Len(Items) : IsAncestorOrSelf(anchor, Items[i])
        /\ IsPrefix(Items, Preorder(dom, anchor))
        /\ Exhausted => Items = Preorder(dom, anchor)
        /\ (Exhausted /\ ~IsContainer(dom, anchor)) => Items = <<anchor>>
        /\ ExhaustionAbsorbs

SubtreeIterStaysInSubtreeWitness ==
    /\ mode = "DomIterator"
    /\ anchor # Root
    /\ children_len(dom, anchor) >= 1
    /\ next_sibling_or_parent(dom, anchor) # NoNode
    /\ Nones >= 2

\* the run emitted `node` on its first pull and None on every later one
OneThenNone(node) ==
    /\ ~panicked
    /\ Len(trace) >= 1 => trace[1] = node
    /\ \A i \in 2..Len(trace) : trace[i] = NoNode

\* ------------------------------------------------------------------------
\* C9: a DomNodeIterator anchored at the root and pulled only from the back
\* yields the root and then None; one anchored at the last node of the
\* document and pulled only from the front yields that node and then None.
\* ------------------------------------------------------------------------
BoundaryTermination ==
    mode = "DomNodeIterator" =>
        /\ (anchor = Root /\ OnlyBack) => OneThenNone(Root)
        /\ (OnlyFront /\ anchor = LastNode) => OneThenNone(LastNode)

BoundaryTerminationWitness ==
    /\ mode = "DomNodeIterator"
    /\ anchor = LastNode
    /\ Len(anchor) >= 2
    /\ OnlyFront
    /\ trace = <<anchor, NoNode, NoNode>>

\* ------------------------------------------------------------------------
\* C10: the first pull on a fresh DomNodeIterator, from either end, emits
\* the anchor A, and no later pull from either end emits A.
\* ------------------------------------------------------------------------
OnlyFirstPullEmitsAnchor ==
    (mode = "DomNodeIterator" /\ ~panicked) =>
        /\ Len(trace) >= 1 => trace[1] = anchor
        /\ \A i \in 2..Len(trace) : trace[i] # anchor

\* the nodes of s that are of the kind, in the order of s
OfKind(s, kind) == SelectSeq(s, LAMBDA x : dom[x] = kind)

\* ------------------------------------------------------------------------
\* C11: Dom::iter_text() yields exactly the Text nodes of the Dom::iter()
\* sequence and Dom::iter_containers() exactly its Container nodes, each
\* once and in the order of Dom::iter(); LineBreak and Zwsp nodes appear in
\* neither.
\* ------------------------------------------------------------------------
FilteredViewsAreSubsequences ==
    (mode \in {"iter_text", "iter_containers"}) =>
        /\ \A i \in 1..Len(Items) : dom[Items[i]] = ViewKind(mode)
        /\ IsPrefix(Items, OfKind(IterAll, ViewKind(mode)))
        /\ Exhausted => Items = OfKind(IterAll, ViewKind(mode))
        /\ NoDuplicates(Items)
        /\ ExhaustionAbsorbs

FilteredViewsAreSubsequencesWitness ==
    /\ mode = "iter_text"
    /\ Exhausted
    /\ Len(Items) >= 2
    /\ \E h \in Nodes : dom[h] \in {"LineBreak", "Zwsp"}
    /\ Len(IterAll) = 4

\* ------------------------------------------------------------------------
\* C12: a DomNodeIterator anchored at A and pulled only from the back emits
\* B(A) = [A] ++ up(A), where up(root) = [] and, for child number i of P,
\* up(X) = M(child i-1 of P) ++ ... ++ M(child 0 of P) ++ [P] ++ up(P), and
\* M(n) = [n] ++ M(last child of n) ++ ... ++ M(first child of n).  The
\* descendants of A are never emitted.
\* ------------------------------------------------------------------------
\* M(n), and M(child i of n) ++ ... ++ M(child 0 of n)
RECURSIVE MirrorPreorder(_, _), MirrorOfChildren(_, _, _)
MirrorPreorder(d, n) == <<n>> \o MirrorOfChildren(d, n, children_len(d, n) - 1)
MirrorOfChildren(d, n, i) ==
    IF i < 0 THEN <<>>
    ELSE MirrorPreorder(d, child_handle(n, i)) \o MirrorOfChildren(d, n, i - 1)

\* up(X)
RECURSIVE UpFrom(_, _)
UpFrom(d, x) ==
    IF ~has_parent(x) THEN <<>>
    ELSE MirrorOfChildren(d, parent_handle(x), index_in_parent(x) - 1)
         \o <<parent_handle(x)>> \o UpFrom(d, parent_handle(x))

\* B(A)
BackSequence(d, a) == <<a>> \o UpFrom(d, a)

BackWalkIsBackSequence ==
    (mode = "DomNodeIterator" /\ OnlyBack) =>
        /\ ~panicked
        /\ IsPrefix(Items, BackSequence(dom, anchor))
        /\ Exhausted => Items = BackSequence(dom, anchor)
        /\ \A i \in 1..Len(Items) : ~IsProperAncestor(anchor, Items[i])

BackWalkIsBackSequenceWitness ==
    /\ mode = "DomNodeIterator"
    /\ OnlyBack
    /\ Exhausted
    /\ has_parent(anchor)
    /\ index_in_parent(anchor) > 0
    /\ children_len(dom, children_get(dom, parent_handle(anchor), 0)) > 0
    /\ Len(Items) = 4

\* ------------------------------------------------------------------------
\* C13: after every pull of a DomNodeIterator that emits a node, from
\* either end, the address of the emitted node is in the visited set.
\* ------------------------------------------------------------------------
EmittedIsVisited ==
    (/\ mode = "DomNodeIterator"
     /\ ~panicked
     /\ Len(trace) > 0
     /\ trace[Len(trace)] # NoNode) => trace[Len(trace)] \in visited

\* C13 as amended: after every pull, the address of every node emitted by
\* an earlier pull is in the visited set, and so is the anchor emitted by
\* the first pull; a pull records the address it moves off, so the node
\* emitted by the latest pull need not be in the set yet.
EarlierEmittedAreVisited ==
    (mode = "DomNodeIterator" /\ ~panicked) =>
        /\ \A i \in 1..(Len(trace) - 1) :
             trace[i] # NoNode => trace[i] \in visited
        /\ Len(trace) = 1 => trace[1] \in visited

EarlierEmittedAreVisitedWitness ==
    /\ mode = "DomNodeIterator"
    /\ ~panicked
    /\ ~OnlyFront /\ ~OnlyBack
    /\ Len(Items) = 3
    /\ Items[3] \notin visited
    /\ Items[1] \in visited /\ Items[2] \in visited

\* ------------------------------------------------------------------------
\* C14: on a well-formed tree no pull of a DomNodeIterator commits a
\* contract violation: next_sibling_or_parent / prev_sibling_or_parent are
\* never called with the root address and the parent they resolve is always
\* a Container.
\* ------------------------------------------------------------------------
NoContractViolation ==
    mode = "DomNodeIterator" => ~panicked

\* the proper ancestors of h, nearest first
RECURSIVE AncestorsBottomUp(_)
AncestorsBottomUp(h) ==
    IF ~has_parent(h) THEN <<>>
    ELSE <<parent_handle(h)>> \o AncestorsBottomUp(parent_handle(h))

\* ------------------------------------------------------------------------
\* C15: pulling a DomNodeIterator only from the back reaches exhaustion
\* after at most as many emissions as the document has nodes, emits no
\* address twice, emits every ancestor of the anchor exactly once in
\* bottom-up order, and its last emitted element is the document root.
\* ------------------------------------------------------------------------
BackWalkTerminatesAtRoot ==
    (mode = "DomNodeIterator" /\ OnlyBack) =>
        /\ ~panicked
        /\ Len(Items) <= Cardinality(Nodes)
        /\ Len(dirs) > Cardinality(Nodes) => Exhausted
        /\ NoDuplicates(Items)
        /\ Exhausted =>
             /\ Items[Len(Items)] = Root
             /\ SelectSeq(Items, LAMBDA x : IsProperAncestor(x, anchor))
                  = AncestorsBottomUp(anchor)

BackWalkTerminatesAtRootWitness ==
    /\ mode = "DomNodeIterator"
    /\ OnlyBack
    /\ Exhausted
    /\ Len(anchor) = 2
    /\ index_in_parent(parent_handle(anchor)) > 0
    /\ Len(Items) = 4

\* the addresses a run has emitted
Emitted == {Items[i] : i \in 1..Len(Items)}

\* ------------------------------------------------------------------------
\* C16: under any interleaving of front and back pulls the visited set of a
\* DomNodeIterator is empty on construction, only grows, and contains only
\* addresses of nodes this iterator has already emitted.
\* ------------------------------------------------------------------------
VisitedGrowsWithinEmitted ==
    /\ [](mode = "DomNodeIterator" =>
            /\ visited \subseteq Emitted
            /\ dirs = <<>> => visited = {})
    /\ [][mode = "DomNodeIterator" => visited \subseteq visited']_vars

VisitedGrowsWithinEmittedWitness ==
    /\ mode = "DomNodeIterator"
    /\ ~OnlyFront /\ ~OnlyBack
    /\ Cardinality(visited) = 3
    /\ visited = Emitted

\* ------------------------------------------------------------------------
\* C17: exhaustion of a DomNodeIterator is absorbing and shared by both
\* ends: once a pull from either end has returned None, the current
\* position is empty and every later pull from either end returns None,
\* whatever nodes of the document have not been emitted.
\* ------------------------------------------------------------------------
ExhaustionIsSharedAndAbsorbing ==
    (mode = "DomNodeIterator" /\ Exhausted) =>
        /\ current = NoNode
        /\ ~panicked
        /\ ExhaustionAbsorbs

ExhaustionIsSharedAndAbsorbingWitness ==
    /\ mode = "DomNodeIterator"
    /\ dirs = <<"F", "B", "F">>
    /\ trace = <<anchor, NoNode, NoNode>>
    /\ Emitted # Nodes

\* ------------------------------------------------------------------------
\* C18: in every state of a DomIterator the frame stack is a chain: every
\* frame above the bottom one holds a Container that is the child, at index
\* child_index - 1 of the frame below it, of that frame's node; no frame's
\* child_index exceeds the number of children of its node; and once the
\* stack is empty every pull returns None.
\* ------------------------------------------------------------------------
FrameStackIsChain ==
    (mode \in {"DomIterator", "iter_text", "iter_containers"}) =>
        /\ \A k \in 2..Len(ancestors) :
             /\ IsContainer(dom, ancestors[k].node)
             /\ ancestors[k].node =
                  child_handle(ancestors[k - 1].node,
                               ancestors[k - 1].child_index - 1)
        /\ \A k \in 1..Len(ancestors) :
             /\ ancestors[k].node \in Nodes
             /\ ancestors[k].child_index >= 0
             /\ ancestors[k].child_index
                  <= children_len(dom, ancestors[k].node)
        /\ Len(ancestors) = 0 =>
             /\ Len(trace) > 0 /\ trace[Len(trace)] = NoNode
             /\ ExhaustionAbsorbs

FrameStackIsChainWitness ==
    /\ mode = "DomIterator"
    /\ Len(ancestors) = 3
    /\ ancestors[2].child_index = 1
    /\ ancestors[1].child_index = 2

====
